---- MODULE Spec2Model ----
(***************************************************************************)
(* Model of compile-packages.mjs: the build script of the monorepo.        *)
(*                                                                         *)
(* main() awaits getSortedPackages(), then maps a synchronous callback     *)
(* over the packages.  The callback skips packages with a custom build,    *)
(* copies README.md and LICENSE, issues two esbuild builds (not awaited)   *)
(* and runs the TypeScript declaration emit synchronously.  JavaScript     *)
(* runs the whole map to completion before any promise of esbuild can      *)
(* settle, so bundle completions happen only once main has returned.       *)
(***************************************************************************)
EXTENDS Naturals, Sequences, FiniteSets, TLC

\* ------------------------------------------------------------ bounds

\* Rebuilds a watch-mode run performs before the model stops following it.
MaxRebuilds == 1

\* Runs of the script on the same workspace, one after the other.
MaxRuns == 2

\* ------------------------------------------------------------ workspace

\* The packages getPackages(__dirname) finds, in the order it returns them.
Discovery == <<"A", "B", "C">>

Pkgs == {Discovery[i] : i \in 1..Len(Discovery)}

\* The two files the script copies from the workspace root.
Shared == {"README.md", "LICENSE"}

\* The two esbuild output formats.
Fmts == {"cjs", "esm"}

\* The entry names glob.sync finds under src (src/a.ts is "a").
EntryNames == {"a", "b"}

VARIABLES
  watch,      \* argv.watch, as a truth value
  scope,      \* the packages argv.scope matches (all of them without --scope)
  ignore,     \* the packages argv.ignore matches (none without --ignore)
  priv,       \* the packages whose manifest says private
  deps,       \* <<a, b>>: package a depends on workspace package b
  script,     \* script[p]: scripts.build of p: "none", "empty" ("") or "cmd"
  rootHas,    \* the shared files present in the workspace root
  files,      \* files[p][f]: "absent", "own" (the package's own text) or "root"
  before,     \* files as this run found them
  src,        \* src[p]: entry names under p's src directory
  broken,     \* <<p, fmt>>: esbuild finds errors building p's sources as fmt
  pc,         \* main: "start", "planning", "idle" (returned) or "failed" (threw)
  packages,   \* the sequence getSortedPackages returned
  idx,        \* position in packages of the next map callback
  issued,     \* build actions main issued in this run, in order
  bundle,     \* bundle[p][fmt]: "none", "inflight", "done" or "failed"
  out,        \* out[p]: files in p's build directory, each with its last writer
  clobbered,  \* some writer replaced a file another writer had written
  dtsEmits,   \* dtsEmits[p]: calls of emitTSDeclaration for p in this run
  esmOk,      \* esmOk[p]: successful ES-module rebuilds of p in this run
  rebuilds,   \* rebuilds of any kind in this run
  copies,     \* <<p, f>>: copyFileSync wrote f into p in this run
  run,        \* number of this run
  prev        \* what the previous run left: its build actions and how it ended

vars == <<watch, scope, ignore, priv, deps, script, rootHas, files, before, src,
          broken, pc,
          packages, idx, issued, bundle, out, clobbered, dtsEmits, esmOk,
          rebuilds, copies, run, prev>>

input == <<watch, scope, ignore, priv, deps, script, rootHas, src, broken>>

\* ------------------------------------------------------------ getSortedPackages

\* filterPackages(packages, scope, ignore, false): showPrivate is false.
filterPackages == (scope \ ignore) \ priv

\* The dependencies of p inside the graph built from the packages G.
LocalDependencies(p, G) == {q \in G : <<p, q>> \in deps}

RECURSIVE Closure(_, _)
Closure(S, G) ==
  LET N == S \cup UNION {LocalDependencies(p, G) : p \in S}
  IN IF N = S THEN S ELSE Closure(N, G)

\* The packages of G that lie on a dependency cycle.
CycleNodes(G) == {p \in G : p \in Closure(LocalDependencies(p, G), G)}

\* A set of packages as a sequence, in discovery order.
InDiscoveryOrder(S) == SelectSeq(Discovery, LAMBDA x : x \in S)

\* The batches of an acyclic graph: the packages with no dependency left,
\* then the same for the rest.
RECURSIVE Batches(_)
Batches(G) ==
  IF G = {} THEN <<>>
  ELSE LET batch == {p \in G : LocalDependencies(p, G) = {}}
       IN <<InDiscoveryOrder(batch)>> \o Batches(G \ batch)

\* batchPackages(filtered): called with one argument, so cycles are not
\* rejected: the packages on a cycle are set aside, the rest is batched, and
\* the cycle's packages follow in two last batches (cyc is their order).
batchPackages(G, cyc) ==
  Batches(G \ CycleNodes(G)) \o
    (IF cyc = <<>> THEN <<>> ELSE << <<Head(cyc)>>, Tail(cyc) >>)

\* The orders in which the packages of a cycle can come out.
CycleOrders(G) ==
  LET C == CycleNodes(G)
  IN {s \in [1..Cardinality(C) -> C] : \A i, j \in DOMAIN s : i # j => s[i] # s[j]}

ConcatReversed(arr, batch) == batch \o arr

\* (arr, batch) => arr.concat(batch)
Concat(arr, batch) == arr \o batch

\* batches.reduce(Concat, [])
RECURSIVE Reduce(_, _)
Reduce(arr, batches) ==
  IF batches = <<>> THEN arr
  ELSE Reduce(Concat(arr, Head(batches)), Tail(batches))

getSortedPackages(cyc) == Reduce(<<>>, batchPackages(filterPackages, cyc))

\* ------------------------------------------------------------ the map callback

HasCustomBuildNever(p) == FALSE

\* pkgJSON.scripts?.build is truthy: present and not the empty string.
HasCustomBuild(p) == script[p] = "cmd"

\* !fs.existsSync(path.join(basePath, "README.md"))
NeedsCopy(p) == files[p]["README.md"] = "absent"

\* copyFileSync throws when its source does not exist; README.md is copied
\* first, LICENSE second.
CopyThrows(p) == NeedsCopy(p) /\ Shared \ rootHas # {}

CopiesDoneReadmeOnly(p) ==
  IF ~NeedsCopy(p) \/ "README.md" \notin rootHas THEN {} ELSE {"README.md"}

\* The shared files copyFileSync wrote before the callback went on or threw.
CopiesDone(p) ==
  IF ~NeedsCopy(p) \/ "README.md" \notin rootHas THEN {}
  ELSE IF "LICENSE" \notin rootHas THEN {"README.md"}
  ELSE Shared

FilesAfterCopy(p) ==
  [f \in Shared |-> IF f \in CopiesDone(p) THEN "root" ELSE files[p][f]]

outdir(p) == <<p, "build">>

JsExtSame(fmt) == ".js"

\* outExtension: { '.js': '.mjs' } for the ES-module build only.
JsExt(fmt) == IF fmt = "esm" THEN ".mjs" ELSE ".js"

\* The files a writer produces for the entry names E: esbuild writes the
\* bundle and its external sourcemap, the declaration emit one .d.ts each.
OutNames(kind, E) ==
  IF kind = "dts" THEN {<<e, ".d.ts">> : e \in E}
  ELSE {<<e, JsExt(kind)>> : e \in E} \cup {<<e, JsExt(kind), ".map">> : e \in E}

Written(o, kind, E) ==
  {r \in o : r.file \notin OutNames(kind, E)} \cup
    {[file |-> n, by |-> kind] : n \in OutNames(kind, E)}

Clobbers(o, kind, E) ==
  \E r \in o : r.file \in OutNames(kind, E) /\ r.by # kind

Action(p, kind) ==
  [pkg |-> p, kind |-> kind, entryPoints |-> src[p], outdir |-> outdir(p)]

\* The builds of one package in the order the callback issues them.
IssueOrder(p) == <<Action(p, "cjs"), Action(p, "esm"), Action(p, "dts")>>

\* emitTSDeclaration(): createProgram and emit, synchronous; o and c are the
\* build directory and the overwrite flag as the caller leaves them.
EmitTSDeclaration(p, o, c) ==
  /\ dtsEmits' = [dtsEmits EXCEPT ![p] = @ + 1]
  /\ out' = [out EXCEPT ![p] = Written(o, "dts", src[p])]
  /\ clobbered' = (c \/ Clobbers(o, "dts", src[p]))

\* What main does when a map callback throws: the exception leaves main.
OnThrowContinue == pc' = "planning" /\ idx' = idx + 1

OnThrow == pc' = "failed" /\ idx' = idx

\* ------------------------------------------------------------ actions

\* const packages = await getSortedPackages(argv.scope, argv.ignore)
GetSortedPackages ==
  /\ pc = "start"
  /\ \E cyc \in CycleOrders(filterPackages) : packages' = getSortedPackages(cyc)
  /\ pc' = "planning"
  /\ idx' = 1
  /\ UNCHANGED <<input, files, before, issued, bundle, out, clobbered, dtsEmits,
                 esmOk, rebuilds, copies, run, prev>>

\* One call of the callback of packages.map, for packages[idx].
MapCallback ==
  /\ pc = "planning"
  /\ idx <= Len(packages)
  /\ LET p == packages[idx] IN
       IF HasCustomBuild(p)
       THEN /\ idx' = idx + 1
            /\ UNCHANGED <<pc, files, copies, issued, bundle, out, clobbered, dtsEmits>>
       ELSE /\ files' = [files EXCEPT ![p] = FilesAfterCopy(p)]
            /\ copies' = copies \cup {<<p, f>> : f \in CopiesDone(p)}
            /\ IF CopyThrows(p)
               THEN /\ OnThrow
                    /\ UNCHANGED <<issued, bundle, out, clobbered, dtsEmits>>
               ELSE /\ issued' = issued \o IssueOrder(p)
                    /\ bundle' = [bundle EXCEPT ![p] = [f \in Fmts |-> "inflight"]]
                    /\ EmitTSDeclaration(p, out[p], clobbered)
                    /\ idx' = idx + 1
                    /\ pc' = pc
  /\ UNCHANGED <<input, before, packages, esmOk, rebuilds, run, prev>>

\* packages.map is over: main returns.
MainReturns ==
  /\ pc = "planning"
  /\ idx > Len(packages)
  /\ pc' = "idle"
  /\ UNCHANGED <<input, files, before, packages, idx, issued, bundle, out,
                 clobbered, dtsEmits, esmOk, rebuilds, copies, run, prev>>

\* No promise settles while main's synchronous part runs.  Once main has
\* thrown the process is going down, and a build esbuild's service already
\* holds may or may not still be written.
CanSettleAnyTime == TRUE

CanSettle == pc \in {"idle", "failed"}

\* The promise of esbuild.build({format: fmt, ...}) for p settles: resolved
\* with the files written, or rejected when the sources have errors.
CompleteBundle(p, fmt) ==
  /\ CanSettle
  /\ bundle[p][fmt] = "inflight"
  /\ IF <<p, fmt>> \notin broken
     THEN /\ bundle' = [bundle EXCEPT ![p][fmt] = "done"]
          /\ out' = [out EXCEPT ![p] = Written(@, fmt, src[p])]
          /\ clobbered' = (clobbered \/ Clobbers(out[p], fmt, src[p]))
     ELSE /\ bundle' = [bundle EXCEPT ![p][fmt] = "failed"]
          /\ UNCHANGED <<out, clobbered>>
  /\ UNCHANGED <<input, files, before, pc, packages, idx, issued, dtsEmits,
                 esmOk, rebuilds, copies, run, prev>>

OnRebuildIgnoresErr(p, err, o, c) == EmitTSDeclaration(p, o, c)

\* onRebuild(err, result) of the ES-module build: an error is logged, a
\* success emits the declarations again.
OnRebuild(p, err, o, c) ==
  IF err
  THEN /\ out' = [out EXCEPT ![p] = o]
       /\ clobbered' = c
       /\ UNCHANGED dtsEmits
  ELSE EmitTSDeclaration(p, o, c)

\* Only the ES-module build passes watch: { onRebuild }; the CommonJS build
\* passes watch: argv.watch.
HasRebuildHook(fmt) == fmt = "esm"

\* Watch mode: esbuild rebuilds one bundle of p after a source change.
Rebuild(p, fmt, ok) ==
  /\ watch
  /\ pc = "idle"
  /\ bundle[p][fmt] = "done"
  /\ rebuilds < MaxRebuilds
  /\ rebuilds' = rebuilds + 1
  /\ esmOk' = [esmOk EXCEPT ![p] = IF fmt = "esm" /\ ok THEN @ + 1 ELSE @]
  /\ LET o == IF ok THEN Written(out[p], fmt, src[p]) ELSE out[p]
         c == clobbered \/ (ok /\ Clobbers(out[p], fmt, src[p]))
     IN IF HasRebuildHook(fmt)
        THEN OnRebuild(p, ~ok, o, c)
        ELSE /\ out' = [out EXCEPT ![p] = o]
             /\ clobbered' = c
             /\ UNCHANGED dtsEmits
  /\ UNCHANGED <<input, files, before, pc, packages, idx, issued, bundle, copies,
                 run, prev>>

NoneInFlight == \A p \in Pkgs, f \in Fmts : bundle[p][f] # "inflight"

\* The process has ended: main threw, or a one-shot run has nothing pending.
ProcessEnded == pc = "failed" \/ (pc = "idle" /\ ~watch /\ NoneInFlight)

\* The script is started again on the workspace as the last run left it.
Restart ==
  /\ run < MaxRuns
  /\ ProcessEnded
  /\ prev' = [actions |-> {issued[i] : i \in DOMAIN issued},
              ended |-> pc,
              copied |-> {c[1] : c \in copies}]
  /\ run' = run + 1
  /\ pc' = "start"
  /\ packages' = <<>>
  /\ idx' = 1
  /\ issued' = <<>>
  /\ bundle' = [p \in Pkgs |-> [f \in Fmts |-> "none"]]
  /\ dtsEmits' = [p \in Pkgs |-> 0]
  /\ esmOk' = [p \in Pkgs |-> 0]
  /\ rebuilds' = 0
  /\ copies' = {}
  /\ before' = files
  /\ UNCHANGED <<input, files, out, clobbered>>

Next ==
  \/ GetSortedPackages
  \/ MapCallback
  \/ MainReturns
  \/ \E p \in Pkgs, fmt \in Fmts : CompleteBundle(p, fmt)
  \/ \E p \in Pkgs, fmt \in Fmts, ok \in BOOLEAN : Rebuild(p, fmt, ok)
  \/ Restart

\* ------------------------------------------------------------ initial states

\* Every relation on the packages without self-dependencies.
AllDeps == SUBSET {<<a, b>> \in Pkgs \X Pkgs : a # b}

\* The state of a fresh process on a workspace.
Fresh ==
  /\ pc = "start"
  /\ packages = <<>>
  /\ idx = 1
  /\ issued = <<>>
  /\ bundle = [p \in Pkgs |-> [f \in Fmts |-> "none"]]
  /\ out = [p \in Pkgs |-> {}]
  /\ clobbered = FALSE
  /\ dtsEmits = [p \in Pkgs |-> 0]
  /\ esmOk = [p \in Pkgs |-> 0]
  /\ rebuilds = 0
  /\ copies = {}
  /\ run = 1
  /\ prev = [actions |-> {}, ended |-> "none", copied |-> {}]
  /\ before = files

\* Workspaces that vary the dependency graph and the filters: three
\* packages with their own shared files and no custom build.
GraphWorkspaces ==
  /\ watch \in BOOLEAN
  /\ deps \in AllDeps
  /\ scope \in {Pkgs, {"A", "B"}}
  /\ ignore \in {{}, {"A"}}
  /\ priv = {}
  /\ script = [p \in Pkgs |-> "none"]
  /\ rootHas = Shared
  /\ files = [p \in Pkgs |-> [f \in Shared |-> "own"]]
  /\ src = [p \in Pkgs |-> EntryNames]
  /\ broken = {}

\* Workspaces that vary the manifests, the shared files and the watch
\* option: C is private, A and B do not depend on each other.
FileWorkspaces ==
  /\ watch \in BOOLEAN
  /\ deps = {}
  /\ scope = Pkgs
  /\ ignore = {}
  /\ priv = {"C"}
  /\ script \in {s \in [Pkgs -> {"none", "empty", "cmd"}] :
                   s["B"] = "none" /\ s["C"] = "none"}
  /\ rootHas \in SUBSET Shared
  /\ files \in {f \in [Pkgs -> [Shared -> {"absent", "own"}]] :
                  f["C"] = [x \in Shared |-> "own"]}
  /\ src = [p \in Pkgs |-> EntryNames]
  /\ broken \in {{}, {<<"A", "esm">>}}

\* Workspaces that vary the entry points: a package may have no .ts file.
EntryWorkspaces ==
  /\ watch \in BOOLEAN
  /\ deps = {<<"A", "B">>}
  /\ scope = Pkgs
  /\ ignore = {}
  /\ priv = {"C"}
  /\ script = [p \in Pkgs |-> "none"]
  /\ rootHas = Shared
  /\ files = [p \in Pkgs |-> [f \in Shared |-> "own"]]
  /\ src \in {s \in [Pkgs -> {{}, EntryNames}] : s["C"] = EntryNames}
  /\ broken \in {{}, {<<"B", "cjs">>}, {<<"A", "cjs">>, <<"A", "esm">>}}

Init == (GraphWorkspaces \/ FileWorkspaces \/ EntryWorkspaces) /\ Fresh

Spec == Init /\ [][Next]_vars

\* Workspaces for the liveness check: B depends on A and may lack its
\* README.md, the root may lack its LICENSE, A's CommonJS build may fail.
LiveWorkspaces ==
  /\ watch \in BOOLEAN
  /\ deps = {<<"B", "A">>}
  /\ scope = Pkgs
  /\ ignore = {}
  /\ priv = {"C"}
  /\ script = [p \in Pkgs |-> "none"]
  /\ rootHas \in {Shared, {"README.md"}}
  /\ files \in {f \in [Pkgs -> [Shared -> {"absent", "own"}]] :
                  /\ f["A"] = [x \in Shared |-> "own"]
                  /\ f["C"] = [x \in Shared |-> "own"]
                  /\ f["B"]["LICENSE"] = "own"}
  /\ src = [p \in Pkgs |-> EntryNames]
  /\ broken \in {{}, {<<"A", "cjs">>}}

LiveInit == LiveWorkspaces /\ Fresh

\* The process is running its event loop: main has returned and no
\* rejection of an unawaited build has brought the process down.
Alive == pc = "idle" /\ \A p \in Pkgs, f \in Fmts : bundle[p][f] # "failed"

\* main's synchronous part runs to its end, and the event loop of a live
\* process settles every pending build.
FairSpec ==
  /\ LiveInit
  /\ [][Next]_vars
  /\ WF_vars(GetSortedPackages)
  /\ WF_vars(MapCallback)
  /\ WF_vars(MainReturns)
  /\ \A p \in Pkgs, fmt \in Fmts : WF_vars(Alive /\ CompleteBundle(p, fmt))

\* ------------------------------------------------------------ vocabulary of the claims

Planned(p) == bundle[p]["cjs"] # "none"

IssuedFor(p) == {i \in DOMAIN issued : issued[i].pkg = p}

\* The pipeline has done nothing for p in this run: no build action issued,
\* no bundle started, no declaration emitted.
Untouched(p) ==
  /\ IssuedFor(p) = {}
  /\ \A f \in Fmts : bundle[p][f] = "none"
  /\ dtsEmits[p] = 0

InSequence == {packages[i] : i \in DOMAIN packages}

\* The packages main builds: in the filtered set and without custom build.
Buildable == {p \in filterPackages : script[p] # "cmd"}

HasFile(p, n) == \E r \in out[p] : r.file = n

AllSix(p) ==
  \A e \in EntryNames, x \in {".js", ".mjs", ".d.ts"} : HasFile(p, <<e, x>>)

MainEnded == pc \in {"idle", "failed"}

\* ------------------------------------------------------------ C1

\* C1: a package whose manifest declares a non-empty scripts.build never
\* gets a CommonJS bundle, an ES-module bundle or a declaration emission,
\* in one-shot and in watch runs, and its build directory stays empty.
C1_CustomBuildUntouched ==
  \A p \in Pkgs : script[p] = "cmd" => Untouched(p) /\ out[p] = {}

\* A watch run that skipped a package with a custom build, built another
\* package and went through a rebuild.
C1_Witness ==
  /\ pc = "idle"
  /\ watch
  /\ rebuilds > 0
  /\ \E p \in InSequence : script[p] = "cmd"
  /\ \E q \in InSequence : bundle[q]["esm"] = "done"

\* ------------------------------------------------------------ C2

\* C2 as stated: every processed package that lacked README.md or LICENSE
\* before the run (either one, or both) has both after a run without fatal
\* error, each identical to the workspace root's file.
C2_BothFilesAfterRun ==
  pc = "idle" =>
    \A p \in Buildable :
      (\E f \in Shared : before[p][f] = "absent") =>
        \A f \in Shared : files[p][f] = "root"

\* C2, amended: every processed package that lacked README.md before the
\* run, with or without LICENSE, has both files after a run without fatal
\* error, each identical to the workspace root's file.
C2_BothFilesWhenReadmeMissing ==
  pc = "idle" =>
    \A p \in Buildable :
      before[p]["README.md"] = "absent" =>
        \A f \in Shared : files[p][f] = "root"

\* A run that ended normally on a package that had neither file.
C2_Witness ==
  /\ pc = "idle"
  /\ \E p \in Buildable :
       /\ \A f \in Shared : before[p][f] = "absent"
       /\ \A f \in Shared : files[p][f] = "root"
       /\ Planned(p)

\* ------------------------------------------------------------ C3

\* C3: a README.md or LICENSE that exists in a package directory before the
\* run is left unchanged by the run, whatever the presence of the other file.
C3_ExistingFilesKept ==
  \A p \in Pkgs, f \in Shared :
    before[p][f] # "absent" => files[p][f] = before[p][f]

\* ------------------------------------------------------------ C4

Acyclic == CycleNodes(filterPackages) = {}

\* C4: for an acyclic workspace and any filter, the sequence main plans
\* holds exactly the filtered packages, none before a package it depends
\* on, and main issues every build action of a dependency before any build
\* action of its dependent.
C4_DependenciesFirst ==
  (pc # "start" /\ Acyclic) =>
    /\ InSequence = filterPackages
    /\ Len(packages) = Cardinality(filterPackages)
    /\ \A i, j \in DOMAIN packages :
         <<packages[i], packages[j]>> \in deps => j < i
    /\ \A m, n \in DOMAIN issued :
         <<issued[m].pkg, issued[n].pkg>> \in deps => n < m

\* A finished run on an acyclic workspace where A, discovered first,
\* depends on C, discovered last, and both were built.
C4_Witness ==
  /\ pc = "idle"
  /\ Acyclic
  /\ <<"A", "C">> \in deps
  /\ Planned("A")
  /\ Planned("C")

\* ------------------------------------------------------------ C5

\* C5: when the filtered packages contain a dependency cycle the run aborts
\* before any package is planned: main never returns normally, and no file
\* copy, no build action and no build directory ever appears.
C5_CycleAborts ==
  CycleNodes(filterPackages) # {} =>
    /\ pc # "idle"
    /\ issued = <<>>
    /\ copies = {}
    /\ \A p \in Pkgs : Untouched(p) /\ out[p] = {}

\* ------------------------------------------------------------ C6

TimesIssued(p, kind) ==
  Cardinality({i \in IssuedFor(p) : issued[i].kind = kind})

\* What C6 says of the builds as such: a planned package has each of its
\* three build actions issued exactly once, the two bundle formats write
\* disjoint file names, and no writer replaces a file of another writer.
C6_Safe ==
  /\ \A p \in Pkgs, kind \in Fmts \cup {"dts"} :
       TimesIssued(p, kind) = (IF Planned(p) THEN 1 ELSE 0)
  /\ \A p \in Pkgs : OutNames("cjs", src[p]) \cap OutNames("esm", src[p]) = {}
  /\ ~clobbered

\* The packages C6 speaks of, in a run the bundler does not fail.
C6_Case(p) ==
  /\ ~watch
  /\ broken = {}
  /\ p \in Buildable
  /\ src[p] = EntryNames

ActionSet == {issued[i] : i \in DOMAIN issued}

\* C7: a second run in a row on the unchanged workspace copies no
\* README.md or LICENSE, and the set of build actions it issues is that of
\* the first run.
C7_SecondRunSame ==
  run > 1 =>
    /\ copies = {}
    /\ MainEnded => ActionSet = prev.actions

\* ------------------------------------------------------------ C8

\* The build actions main issued, package by package.
RECURSIVE PlannedLog(_)
PlannedLog(i) ==
  IF i = 0 THEN <<>>
  ELSE PlannedLog(i - 1) \o
         (IF Planned(packages[i])
          THEN <<[pkg |-> packages[i], kind |-> "cjs"],
                 [pkg |-> packages[i], kind |-> "esm"],
                 [pkg |-> packages[i], kind |-> "dts"]>>
          ELSE <<>>)

\* C8: main issues CommonJS, ES-module, declarations for each package, all
\* of one package before any of the next; the declarations of a package are
\* written before either of its bundles settles; no bundle settles while
\* main is still issuing, so the bundles of earlier packages are in flight
\* when those of later ones are issued; once main has returned every
\* bundle in flight can settle next, whatever the others have done.
C8_IssueOrderNoWaiting ==
  /\ [i \in DOMAIN issued |-> [pkg |-> issued[i].pkg, kind |-> issued[i].kind]]
       = PlannedLog(Len(packages))
  /\ \A p \in Pkgs, f \in Fmts :
       bundle[p][f] \in {"done", "failed"} =>
         /\ dtsEmits[p] >= 1
         /\ \A e \in src[p] : HasFile(p, <<e, ".d.ts">>)
  /\ pc = "planning" =>
       \A p \in Pkgs, f \in Fmts : bundle[p][f] \in {"none", "inflight"}
  /\ pc = "idle" =>
       \A p \in Pkgs, f \in Fmts :
         bundle[p][f] = "inflight" => ENABLED CompleteBundle(p, f)

\* The ES-module bundle of the last package has settled while both bundles
\* of the first package and the CommonJS bundle of the last are in flight.
C8_Witness ==
  /\ pc = "idle"
  /\ Len(packages) > 1
  /\ bundle[packages[1]] = [f \in Fmts |-> "inflight"]
  /\ bundle[packages[Len(packages)]]["esm"] = "done"
  /\ bundle[packages[Len(packages)]]["cjs"] = "inflight"

\* ------------------------------------------------------------ C9

\* What C9 says of the rebuild hook: a package's declaration emissions are
\* one for its planning plus one per successful ES-module rebuild, so a
\* failed rebuild and a CommonJS rebuild add none; without watch nothing
\* is rebuilt and no package has more than one emission.
C9_Hook ==
  /\ \A p \in Pkgs : dtsEmits[p] = (IF Planned(p) THEN 1 ELSE 0) + esmOk[p]
  /\ ~watch => rebuilds = 0 /\ \A p \in Pkgs : dtsEmits[p] <= 1

AboutToThrow ==
  /\ pc = "planning"
  /\ idx <= Len(packages)
  /\ script[packages[idx]] # "cmd"
  /\ files[packages[idx]]["README.md"] = "absent"
  /\ rootHas # Shared

\* C10: a copy step that throws ends the run: the failed package and every
\* package after it are never built, main does not go on to the next
\* package, and what was issued for the packages before stays as it is.
C10_MissingSharedFileFatal ==
  /\ [](pc = "failed" =>
         /\ idx \in DOMAIN packages
         /\ \A j \in idx..Len(packages) : Untouched(packages[j])
         /\ \A j \in 1..(idx - 1) :
              script[packages[j]] # "cmd" => Planned(packages[j]))
  /\ [][AboutToThrow =>
          /\ pc' = "failed"
          /\ issued' = issued
          /\ bundle' = bundle
          /\ dtsEmits' = dtsEmits]_vars
  /\ [][pc = "failed" =>
          \/ pc' = "failed" /\ idx' = idx /\ issued' = issued
          \/ pc' = "start" /\ run' = run + 1]_vars

\* main threw at the second package while both bundles of the first are in
\* flight.
C10_Witness ==
  /\ pc = "failed"
  /\ idx = 2
  /\ bundle[packages[1]] = [f \in Fmts |-> "inflight"]
  /\ Untouched(packages[2])

====
